---- MODULE Spec2Model ----
(***************************************************************************)
(* RoleManager of src/core/roles.rs: the persisted rule configuration of   *)
(* one guild, the compiled-rule cache (rule_cache), the cooldown cache     *)
(* (last_update_cache) of one (guild, user, is_manual) key, and the calls  *)
(* made on them by concurrent threads.                                     *)
(***************************************************************************)
EXTENDS Integers, FiniteSets, Sequences, TLC

\* ------------------------------------------------------------ bounds
NumProcs == 2        \* concurrent threads calling into the RoleManager
MaxWrites == 3       \* committed changes of the rule tables in one run
MaxHandles == 2      \* rule_cache entries created in one run
MaxTime == 3         \* last reading of the system clock
MaxLimit == 3        \* largest value a configured limit takes

Procs == 1..NumProcs
Handles == 1..MaxHandles

Rules == {"b1", "c1"}
Groups == {"g1", "g2"}
RoleIds == {"g1"}      \* role ids passed to set_active_role
Conds == {"good", "bad"}

NoRole == "NoRole"
NoCond == "NoCond"
NoHandle == 0
NoProc == 0
NoTime == -1         \* Option<SystemTime>::None
Absent == -2         \* no cell in last_update_cache
NoNick == "NoNick"

\* Option<T>
None == <<>>
Some(x) == <<x>>

\* ------------------------------------------------ configuration values
RolesMaxAssigned == 1
RolesMaxCustomRules == 1
RolesMaxInstructions == 2
RolesMaxWebRequests == 1

\* cooldown argument of update_user_with_cooldown, in clock units
Cooldown == 2

\* ------------------------------------------------------------- state
VARIABLES
    guild_active_rules,   \* rule name -> role id, NoRole where no row
    guild_custom_rules,   \* rule name -> condition, NoCond where no row
    db_lock,              \* thread inside transaction_immediate, or NoProc
    db_version,           \* number of committed changes of the two tables
    limits_enabled,       \* ConfigKeys::RolesEnableLimits
    rule_cache,           \* handle of the guild's entry, NoHandle when absent
    next_handle,          \* handles created so far
    locks,                \* handle -> VerificationSetStatus behind its RwLock
    lock_version,         \* handle -> db_version at the two reads its status was built from
    lock_epoch,           \* handle -> epoch at which its status was installed
    epoch,                \* number of clear_rule_cache calls so far
    pc, op, arg_rule, arg_val,  \* position, call and arguments of each thread
    lock_h,               \* the Arc<RwLock<..>> a call holds
    start_epoch,          \* epoch at which the call got its handle
    cfg_active,           \* active_rules_list read by get_configuration_internal
    cfg_version,          \* db_version at the read of the active and of the custom rules
    built,                \* status returned by build_for_guild
    wrote_version,        \* db_version produced by the call's own write
    result,
    clock,                \* SystemTime::now()
    roles_last_updated,   \* persisted row of the key, NoTime where no row
    last_update_cache,    \* cell of the key: Absent, or its Option<SystemTime>
    last_updated, now,    \* locals of update_user_with_cooldown
    member_roles, member_nick,  \* the member on the platform
    roblox_id,            \* Option of the identity, an identity being the rules it satisfies
    orig_roles, roles,    \* locals of assign_roles
    set_nickname,         \* Option of the nickname assign_roles will set
    is_admin              \* assign_roles will return SetRolesStatus::IsAdmin

cfgvars == <<guild_active_rules, guild_custom_rules, db_lock, db_version, limits_enabled>>
cachevars == <<rule_cache, next_handle, locks, lock_version, lock_epoch, epoch>>
procvars == <<pc, op, arg_rule, arg_val, lock_h, start_epoch, cfg_active, cfg_version,
              built, wrote_version, result>>
cdvars == <<clock, roles_last_updated, last_update_cache, last_updated, now>>
membervars == <<member_roles, member_nick, roblox_id, orig_roles, roles, set_nickname,
                is_admin>>
vars == <<cfgvars, cachevars, procvars, cdvars, membervars>>

\* ------------------------------------------------- VerificationSetStatus
NoRules == [r \in Rules |-> NoRole]
NotCompiled == [tag |-> "NotCompiled", msg |-> "", set |-> {}, role_info |-> NoRules]
Error(m) == [tag |-> "Error", msg |-> m, set |-> {}, role_info |-> NoRules]
Compiled(s, info) == [tag |-> "Compiled", msg |-> "", set |-> s, role_info |-> info]

is_compiled(status) == status.tag # "NotCompiled"

\* ----------------------------------------------------- rule compiler
has_builtin(rule) == rule = "b1"

from_str(cond) == IF cond = "bad" THEN "ParseError" ELSE "ok"

\* The rule a name resolves to: a built-in by name, else the custom condition.
resolve(rule, cond) ==
    IF has_builtin(rule) THEN "builtin"
    ELSE IF cond = NoCond THEN "UnknownRule"
    ELSE IF from_str(cond) # "ok" THEN "ParseError"
    ELSE "custom"

instructions(kind) == IF kind = "custom" THEN 2 ELSE 1
web_requests(kind) == IF kind = "custom" THEN 1 ELSE 0

RECURSIVE SumInstr(_)
SumInstr(s) ==
    IF s = {} THEN 0
    ELSE LET x == CHOOSE y \in s : TRUE
         IN instructions(x[2]) + SumInstr(s \ {x})

instruction_count(set) == SumInstr(set)

max_web_requests(set) ==
    IF \E x \in set : web_requests(x[2]) = 1 THEN 1 ELSE 0

\* VerificationSet::compile: "ok" with the set, or the user error.
compile(names, custom) ==
    LET set == {<<r, resolve(r, custom[r])>> : r \in names}
    IN  IF \E x \in set : x[2] = "UnknownRule" THEN [err |-> "UnknownRule", set |-> {}]
        ELSE IF \E x \in set : x[2] = "ParseError" THEN [err |-> "ParseError", set |-> {}]
        ELSE [err |-> "ok", set |-> set]

ActiveNames(active) == {r \in Rules : active[r] # NoRole}
CustomNames(custom) == {r \in Rules : custom[r] # NoCond}

\* The values config.get returns for the four limits.
ConfigValues ==
    [max_assigned |-> RolesMaxAssigned, max_custom |-> RolesMaxCustomRules,
     max_instructions |-> RolesMaxInstructions, max_web_requests |-> RolesMaxWebRequests]

\* build_for_guild without the check of the custom-rule count.
build_status_no_custom_check(active, custom, limits, max) ==
    LET active_count == Cardinality(ActiveNames(active))
        c == compile(ActiveNames(active), custom)
    IN  IF limits /\ active_count > max.max_assigned THEN Error("TooManyRoles")
        ELSE IF c.err # "ok" THEN Error(c.err)
        ELSE IF limits /\ instruction_count(c.set) > max.max_instructions
             THEN Error("TooComplex")
        ELSE IF limits /\ max_web_requests(c.set) > max.max_web_requests
             THEN Error("TooManyWebRequests")
        ELSE Compiled(c.set, active)

\* build_for_guild with the rules compiled before the counts are checked.
build_status_compile_first(active, custom, limits, max) ==
    LET active_count == Cardinality(ActiveNames(active))
        custom_count == Cardinality(CustomNames(custom))
        c == compile(ActiveNames(active), custom)
    IN  IF c.err # "ok" THEN Error(c.err)
        ELSE IF limits /\ active_count > max.max_assigned THEN Error("TooManyRoles")
        ELSE IF limits /\ custom_count > max.max_custom THEN Error("TooManyCustom")
        ELSE IF limits /\ instruction_count(c.set) > max.max_instructions
             THEN Error("TooComplex")
        ELSE IF limits /\ max_web_requests(c.set) > max.max_web_requests
             THEN Error("TooManyWebRequests")
        ELSE Compiled(c.set, active)

\* build_for_guild, lines 102-168, on the configuration read and the limits
\* max that config.get returns.
build_status(active, custom, limits, max) ==
    LET active_count == Cardinality(ActiveNames(active))
        custom_count == Cardinality(CustomNames(custom))
        c == compile(ActiveNames(active), custom)
    IN  IF limits /\ active_count > max.max_assigned THEN Error("TooManyRoles")
        ELSE IF limits /\ custom_count > max.max_custom THEN Error("TooManyCustom")
        ELSE IF c.err # "ok" THEN Error(c.err)
        ELSE IF limits /\ instruction_count(c.set) > max.max_instructions
             THEN Error("TooComplex")
        ELSE IF limits /\ max_web_requests(c.set) > max.max_web_requests
             THEN Error("TooManyWebRequests")
        ELSE Compiled(c.set, active)

build_for_guild(active, custom, limits) == build_status(active, custom, limits, ConfigValues)

\* ------------------------------------------------------------- calls
Mutators == {"set_active_role", "set_custom_rule"}
Readers == {"check_error", "get_assigned_roles", "explain_rule_set"}

\* db_version after a write that turns table old into table new.
Written(old, new) == IF new = old THEN db_version ELSE db_version + 1

PendingWrites == Cardinality({q \in Procs : pc[q] \in {"sar_write", "scr_write"}})

\* The call of thread p returns res; its locals are dropped.
Return(p, res) ==
    /\ pc' = [pc EXCEPT ![p] = "done"]
    /\ result' = [result EXCEPT ![p] = res]
    /\ arg_rule' = [arg_rule EXCEPT ![p] = "b1"]
    /\ arg_val' = [arg_val EXCEPT ![p] = NoRole]
    /\ lock_h' = [lock_h EXCEPT ![p] = NoHandle]
    /\ start_epoch' = [start_epoch EXCEPT ![p] = 0]
    /\ cfg_active' = [cfg_active EXCEPT ![p] = NoRules]
    /\ cfg_version' = [cfg_version EXCEPT ![p] = <<0, 0>>]
    /\ built' = [built EXCEPT ![p] = NotCompiled]

\* The caller takes the result; the thread is free for its next call.
ret(p) ==
    /\ pc[p] = "done"
    /\ pc' = [pc EXCEPT ![p] = "idle"]
    /\ op' = [op EXCEPT ![p] = "none"]
    /\ result' = [result EXCEPT ![p] = "none"]
    /\ wrote_version' = [wrote_version EXCEPT ![p] = 0]
    /\ UNCHANGED <<arg_rule, arg_val, lock_h, start_epoch, cfg_active, cfg_version, built>>
    /\ UNCHANGED <<cfgvars, cachevars, cdvars, membervars>>

\* set_active_role with the checks made outside any transaction.
set_active_role_begin_no_transaction(p, rule_name, discord_role) ==
    /\ pc[p] = "idle"
    /\ op' = [op EXCEPT ![p] = "set_active_role"]
    /\ LET role_exists == has_builtin(rule_name) \/ guild_custom_rules[rule_name] # NoCond
           assigned_count == Cardinality(ActiveNames(guild_active_rules) \ {rule_name})
       IN  IF ~role_exists
           THEN Return(p, "NoRuleName")
           ELSE IF limits_enabled /\ assigned_count + 1 > RolesMaxAssigned
           THEN Return(p, "TooManyRoles")
           ELSE /\ db_version + PendingWrites < MaxWrites
                /\ pc' = [pc EXCEPT ![p] = "sar_write"]
                /\ arg_rule' = [arg_rule EXCEPT ![p] = rule_name]
                /\ arg_val' = [arg_val EXCEPT ![p] = discord_role]
                /\ UNCHANGED <<lock_h, start_epoch, cfg_active, cfg_version, built, result>>
    /\ UNCHANGED wrote_version
    /\ UNCHANGED <<cfgvars, cachevars, cdvars, membervars>>

\* set_active_role, lines 196-220: the transaction is entered, the rule name
\* and the assigned count are checked; an error rolls the transaction back.
set_active_role_begin(p, rule_name, discord_role) ==
    /\ pc[p] = "idle"
    /\ db_lock = NoProc
    /\ op' = [op EXCEPT ![p] = "set_active_role"]
    /\ LET role_exists == has_builtin(rule_name) \/ guild_custom_rules[rule_name] # NoCond
           assigned_count == Cardinality(ActiveNames(guild_active_rules) \ {rule_name})
       IN  IF ~role_exists
           THEN Return(p, "NoRuleName") /\ UNCHANGED db_lock
           ELSE IF limits_enabled /\ assigned_count + 1 > RolesMaxAssigned
           THEN Return(p, "TooManyRoles") /\ UNCHANGED db_lock
           ELSE /\ db_version + PendingWrites < MaxWrites
                /\ db_lock' = p
                /\ pc' = [pc EXCEPT ![p] = "sar_write"]
                /\ arg_rule' = [arg_rule EXCEPT ![p] = rule_name]
                /\ arg_val' = [arg_val EXCEPT ![p] = discord_role]
                /\ UNCHANGED <<lock_h, start_epoch, cfg_active, cfg_version, built, result>>
    /\ UNCHANGED <<guild_active_rules, guild_custom_rules, db_version, limits_enabled>>
    /\ UNCHANGED wrote_version
    /\ UNCHANGED <<cachevars, cdvars, membervars>>

\* set_active_role, lines 222-238: REPLACE or DELETE of the row, commit.
set_active_role_write(p) ==
    /\ pc[p] = "sar_write"
    /\ guild_active_rules' = [guild_active_rules EXCEPT ![arg_rule[p]] = arg_val[p]]
    /\ db_version' = Written(guild_active_rules, guild_active_rules')
    /\ wrote_version' = [wrote_version EXCEPT ![p] = db_version']
    /\ db_lock' = NoProc
    /\ pc' = [pc EXCEPT ![p] = "get"]
    /\ UNCHANGED <<guild_custom_rules, limits_enabled>>
    /\ UNCHANGED <<op, arg_rule, arg_val, lock_h, start_epoch, cfg_active, cfg_version,
                   built, result>>
    /\ UNCHANGED <<cachevars, cdvars, membervars>>

\* set_custom_rule with the row written before the condition is parsed.
set_custom_rule_begin_write_first(p, rule_name, condition) ==
    /\ pc[p] = "idle"
    /\ op' = [op EXCEPT ![p] = "set_custom_rule"]
    /\ LET custom_count == Cardinality(CustomNames(guild_custom_rules) \ {rule_name})
       IN  IF limits_enabled /\ custom_count + 1 > RolesMaxCustomRules
           THEN Return(p, "TooManyCustom") /\ UNCHANGED guild_custom_rules
           ELSE IF from_str(condition) # "ok"
           THEN /\ Return(p, "ParseError")
                /\ guild_custom_rules' = [guild_custom_rules EXCEPT ![rule_name] = condition]
           ELSE /\ db_version + PendingWrites < MaxWrites
                /\ pc' = [pc EXCEPT ![p] = "scr_write"]
                /\ arg_rule' = [arg_rule EXCEPT ![p] = rule_name]
                /\ arg_val' = [arg_val EXCEPT ![p] = condition]
                /\ UNCHANGED <<lock_h, start_epoch, cfg_active, cfg_version, built, result>>
                /\ UNCHANGED guild_custom_rules
    /\ UNCHANGED wrote_version
    /\ UNCHANGED <<guild_active_rules, db_lock, db_version, limits_enabled>>
    /\ UNCHANGED <<cachevars, cdvars, membervars>>

\* set_custom_rule with a condition, lines 245-266: the count is read and
\* checked, then the condition is parsed; no transaction is open.
set_custom_rule_begin(p, rule_name, condition) ==
    /\ pc[p] = "idle"
    /\ op' = [op EXCEPT ![p] = "set_custom_rule"]
    /\ LET custom_count == Cardinality(CustomNames(guild_custom_rules) \ {rule_name})
       IN  IF limits_enabled /\ custom_count + 1 > RolesMaxCustomRules
           THEN Return(p, "TooManyCustom")
           ELSE IF from_str(condition) # "ok"
           THEN Return(p, "ParseError")
           ELSE /\ db_version + PendingWrites < MaxWrites
                /\ pc' = [pc EXCEPT ![p] = "scr_write"]
                /\ arg_rule' = [arg_rule EXCEPT ![p] = rule_name]
                /\ arg_val' = [arg_val EXCEPT ![p] = condition]
                /\ UNCHANGED <<lock_h, start_epoch, cfg_active, cfg_version, built, result>>
    /\ UNCHANGED wrote_version
    /\ UNCHANGED <<cfgvars, cachevars, cdvars, membervars>>

\* set_custom_rule, lines 267-272: REPLACE INTO guild_custom_rules.
set_custom_rule_write(p) ==
    /\ pc[p] = "scr_write"
    /\ db_lock = NoProc
    /\ guild_custom_rules' = [guild_custom_rules EXCEPT ![arg_rule[p]] = arg_val[p]]
    /\ db_version' = Written(guild_custom_rules, guild_custom_rules')
    /\ wrote_version' = [wrote_version EXCEPT ![p] = db_version']
    /\ pc' = [pc EXCEPT ![p] = "get"]
    /\ UNCHANGED <<guild_active_rules, db_lock, limits_enabled>>
    /\ UNCHANGED <<op, arg_rule, arg_val, lock_h, start_epoch, cfg_active, cfg_version,
                   built, result>>
    /\ UNCHANGED <<cachevars, cdvars, membervars>>

\* set_custom_rule without a condition, lines 273-279: DELETE of the row.
set_custom_rule_delete(p, rule_name) ==
    /\ pc[p] = "idle"
    /\ db_lock = NoProc
    /\ db_version + PendingWrites < MaxWrites
    /\ op' = [op EXCEPT ![p] = "set_custom_rule"]
    /\ guild_custom_rules' = [guild_custom_rules EXCEPT ![rule_name] = NoCond]
    /\ db_version' = Written(guild_custom_rules, guild_custom_rules')
    /\ wrote_version' = [wrote_version EXCEPT ![p] = db_version']
    /\ pc' = [pc EXCEPT ![p] = "get"]
    /\ UNCHANGED <<guild_active_rules, db_lock, limits_enabled>>
    /\ UNCHANGED <<arg_rule, arg_val, lock_h, start_epoch, cfg_active, cfg_version,
                   built, result>>
    /\ UNCHANGED <<cachevars, cdvars, membervars>>

\* check_error, get_assigned_roles, explain_rule_set: the call starts.
reader_begin(p, o) ==
    /\ pc[p] = "idle"
    /\ o \in Readers
    /\ op' = [op EXCEPT ![p] = o]
    /\ pc' = [pc EXCEPT ![p] = "get"]
    /\ UNCHANGED <<arg_rule, arg_val, lock_h, start_epoch, cfg_active, cfg_version,
                   built, wrote_version, result>>
    /\ UNCHANGED <<cfgvars, cachevars, cdvars, membervars>>

\* ConcurrentCache::read: the entry of the key, created by the closure when
\* the cache holds none.
cache_read(p) ==
    IF rule_cache = NoHandle
    THEN /\ next_handle < MaxHandles
         /\ next_handle' = next_handle + 1
         /\ rule_cache' = next_handle + 1
         /\ locks' = [locks EXCEPT ![next_handle + 1] = NotCompiled]
         /\ lock_h' = [lock_h EXCEPT ![p] = next_handle + 1]
    ELSE /\ lock_h' = [lock_h EXCEPT ![p] = rule_cache]
         /\ UNCHANGED <<next_handle, rule_cache, locks>>

\* ConcurrentCache::clear_cache: every entry is dropped from the map; handles
\* already given out stay alive with their holders.
cache_clear ==
    /\ rule_cache' = NoHandle
    /\ UNCHANGED next_handle
    /\ IF \A q \in Procs : lock_h[q] # rule_cache
       THEN /\ locks' = [locks EXCEPT ![rule_cache] = NotCompiled]
            /\ lock_version' = [lock_version EXCEPT ![rule_cache] = <<0, 0>>]
            /\ lock_epoch' = [lock_epoch EXCEPT ![rule_cache] = 0]
       ELSE UNCHANGED <<locks, lock_version, lock_epoch>>

force(o) == o \in Mutators

\* Thread p holds the last Arc of an entry the map no longer holds.
LastHolder(p) ==
    /\ lock_h[p] # NoHandle
    /\ lock_h[p] # rule_cache
    /\ \A q \in Procs \ {p} : lock_h[q] # lock_h[p]

\* Thread p drops its Arc, the entry then holding lk (status), lv and le: the
\* RwLock is freed with its last Arc.
DropHandle(p, lk, lv, le) ==
    IF LastHolder(p)
    THEN /\ locks' = [lk EXCEPT ![lock_h[p]] = NotCompiled]
         /\ lock_version' = [lv EXCEPT ![lock_h[p]] = <<0, 0>>]
         /\ lock_epoch' = [le EXCEPT ![lock_h[p]] = 0]
    ELSE /\ locks' = lk
         /\ lock_version' = lv
         /\ lock_epoch' = le

\* get_rule_cache, as called by refresh_cache and by the readers.
get_rule_cache(p) ==
    /\ pc[p] = "get"
    /\ cache_read(p)
    /\ start_epoch' = [start_epoch EXCEPT ![p] = epoch]
    /\ pc' = [pc EXCEPT ![p] = IF force(op[p]) THEN "build" ELSE "check"]
    /\ UNCHANGED <<lock_version, lock_epoch, epoch>>
    /\ UNCHANGED <<op, arg_rule, arg_val, cfg_active, cfg_version, built,
                   wrote_version, result>>
    /\ UNCHANGED <<cfgvars, cdvars, membervars>>

\* update_cached_verification returning at once when not forced.
update_cached_verification_check_skips(p) ==
    /\ pc[p] = "check"
    /\ pc' = [pc EXCEPT ![p] = "read"]
    /\ UNCHANGED <<op, arg_rule, arg_val, lock_h, start_epoch, cfg_active, cfg_version,
                   built, wrote_version, result>>
    /\ UNCHANGED <<cfgvars, cachevars, cdvars, membervars>>

\* update_cached_verification, line 179 with force = false: lock.read().
update_cached_verification_check(p) ==
    /\ pc[p] = "check"
    /\ pc' = [pc EXCEPT ![p] = IF is_compiled(locks[lock_h[p]]) THEN "read" ELSE "build"]
    /\ UNCHANGED <<op, arg_rule, arg_val, lock_h, start_epoch, cfg_active, cfg_version,
                   built, wrote_version, result>>
    /\ UNCHANGED <<cfgvars, cachevars, cdvars, membervars>>

\* get_configuration_internal, lines 59-63: the active rules are read.
get_configuration_internal_active(p) ==
    /\ pc[p] = "build"
    /\ cfg_active' = [cfg_active EXCEPT ![p] = guild_active_rules]
    /\ cfg_version' = [cfg_version EXCEPT ![p] = <<db_version, db_version>>]
    /\ pc' = [pc EXCEPT ![p] = "build2"]
    /\ UNCHANGED <<op, arg_rule, arg_val, lock_h, start_epoch, built,
                   wrote_version, result>>
    /\ UNCHANGED <<cfgvars, cachevars, cdvars, membervars>>

\* build_for_guild taking the role ids from a second read of the active rules.
build_for_guild_finish_rereads(p) ==
    /\ pc[p] = "build2"
    /\ built' = [built EXCEPT ![p] =
            LET status == build_for_guild(cfg_active[p], guild_custom_rules, limits_enabled)
            IN  IF status.tag = "Compiled" THEN Compiled(status.set, guild_active_rules)
                ELSE status]
    /\ cfg_version' = [cfg_version EXCEPT ![p] = <<cfg_version[p][1], db_version>>]
    /\ pc' = [pc EXCEPT ![p] = "install"]
    /\ UNCHANGED <<op, arg_rule, arg_val, lock_h, start_epoch, cfg_active,
                   wrote_version, result>>
    /\ UNCHANGED <<cfgvars, cachevars, cdvars, membervars>>

\* get_configuration_internal, lines 64-68, and the rest of build_for_guild:
\* the custom rules are read and the status is computed.
build_for_guild_finish(p) ==
    /\ pc[p] = "build2"
    /\ built' = [built EXCEPT ![p] =
                    build_for_guild(cfg_active[p], guild_custom_rules, limits_enabled)]
    /\ cfg_version' = [cfg_version EXCEPT ![p] = <<cfg_version[p][1], db_version>>]
    /\ pc' = [pc EXCEPT ![p] = "install"]
    /\ UNCHANGED <<op, arg_rule, arg_val, lock_h, start_epoch, cfg_active,
                   wrote_version, result>>
    /\ UNCHANGED <<cfgvars, cachevars, cdvars, membervars>>

\* A fatal error of build_for_guild that puts the entry back to NotCompiled.
build_for_guild_fails_resets(p) ==
    /\ pc[p] = "build2"
    /\ DropHandle(p, [locks EXCEPT ![lock_h[p]] = NotCompiled], lock_version, lock_epoch)
    /\ Return(p, "FatalError")
    /\ UNCHANGED <<op, wrote_version, rule_cache, next_handle, epoch>>
    /\ UNCHANGED <<cfgvars, cdvars, membervars>>

\* A fatal error of build_for_guild stored in the entry as an Error status.
build_for_guild_fails_cached(p) ==
    /\ pc[p] = "build2"
    /\ DropHandle(p, [locks EXCEPT ![lock_h[p]] = Error("FatalError")],
                  lock_version, lock_epoch)
    /\ Return(p, "FatalError")
    /\ UNCHANGED <<op, wrote_version, rule_cache, next_handle, epoch>>
    /\ UNCHANGED <<cfgvars, cdvars, membervars>>

\* build_for_guild, lines 99-102 and 165-168, and update_cached_verification,
\* line 180: a query, a configuration read or the compiler fails with an
\* error that is no CommandError; `?` returns it before lock.write().
build_for_guild_fails(p) ==
    /\ pc[p] = "build2"
    /\ DropHandle(p, locks, lock_version, lock_epoch)
    /\ IF op[p] \in {"assign_roles", "update_user_with_cooldown"}
       THEN /\ Return(p, "FatalError")
            /\ roblox_id' = [roblox_id EXCEPT ![p] = None]
            /\ orig_roles' = [orig_roles EXCEPT ![p] = {}]
            /\ roles' = [roles EXCEPT ![p] = {}]
            /\ set_nickname' = [set_nickname EXCEPT ![p] = None]
            /\ is_admin' = [is_admin EXCEPT ![p] = FALSE]
            /\ last_updated' = [last_updated EXCEPT ![p] = NoTime]
            /\ now' = [now EXCEPT ![p] = 0]
            /\ UNCHANGED <<member_roles, member_nick, clock, roles_last_updated,
                           last_update_cache>>
       ELSE /\ Return(p, "FatalError")
            /\ UNCHANGED <<cdvars, membervars>>
    /\ UNCHANGED <<op, wrote_version, rule_cache, next_handle, epoch>>
    /\ UNCHANGED cfgvars

\* update_cached_verification, lines 181-184: lock.write(), and the status
\* is stored when forced or when the entry is still not compiled.
\* The status is stored whatever the entry holds.
Installs_always(p) == TRUE

Installs(p) == force(op[p]) \/ ~is_compiled(locks[lock_h[p]])

update_cached_verification_write(p) ==
    /\ pc[p] = "install"
    /\ LET h == lock_h[p]
           lk == IF Installs(p) THEN [locks EXCEPT ![h] = built[p]] ELSE locks
           lv == IF Installs(p) THEN [lock_version EXCEPT ![h] = cfg_version[p]]
                 ELSE lock_version
           le == IF Installs(p) THEN [lock_epoch EXCEPT ![h] = epoch] ELSE lock_epoch
       IN  IF force(op[p])
           THEN /\ DropHandle(p, lk, lv, le)      \* refresh_cache returns
                /\ Return(p, "ok")
                /\ UNCHANGED op
           ELSE /\ locks' = lk
                /\ lock_version' = lv
                /\ lock_epoch' = le
                /\ pc' = [pc EXCEPT ![p] = "read"]
            /\ UNCHANGED <<op, arg_rule, arg_val, lock_h, start_epoch, cfg_active,
                           cfg_version, built, result>>
    /\ UNCHANGED <<rule_cache, next_handle, epoch, wrote_version>>
    /\ UNCHANGED <<cfgvars, cdvars, membervars>>

\* What each reader makes of the status behind the lock.
check_error(status) ==
    IF status.tag = "Error" THEN status.msg ELSE "None"

explain_rule_set(status) ==
    CASE status.tag = "Compiled" -> "set"
      [] status.tag = "Error" -> "Could not compile"
      [] OTHER -> "unimplemented"

\* get_assigned_roles passing the message of an Error status on.
get_assigned_roles_reveals(status) ==
    CASE status.tag = "Compiled" -> "ok"
      [] status.tag = "Error" -> status.msg
      [] OTHER -> "unreachable"

\* get_assigned_roles, lines 299-314: what the call returns; the Vec it
\* returns for a Compiled status is assigned_roles.
get_assigned_roles(status) ==
    CASE status.tag = "Compiled" -> "ok"
      [] status.tag = "Error" -> "ContactAdmins"
      [] OTHER -> "unreachable"

\* The final lock.read() of check_error, get_assigned_roles, explain_rule_set.
reader_read(p) ==
    /\ pc[p] = "read"
    /\ op[p] \in Readers
    /\ Return(p, CASE op[p] = "check_error" -> check_error(locks[lock_h[p]])
                   [] op[p] = "explain_rule_set" -> explain_rule_set(locks[lock_h[p]])
                   [] OTHER -> get_assigned_roles(locks[lock_h[p]]))
    /\ DropHandle(p, locks, lock_version, lock_epoch)
    /\ UNCHANGED <<op, wrote_version, rule_cache, next_handle, epoch>>
    /\ UNCHANGED <<cfgvars, cdvars, membervars>>

\* clear_rule_cache that leaves the entries in the map.
clear_rule_cache_keeps_entries(p) ==
    /\ pc[p] = "idle"
    /\ rule_cache # NoHandle
    /\ next_handle < MaxHandles
    /\ epoch' = epoch + 1
    /\ UNCHANGED <<rule_cache, next_handle, locks, lock_version, lock_epoch>>
    /\ UNCHANGED <<procvars, cfgvars, cdvars, membervars>>

\* clear_rule_cache, lines 437-439.
clear_rule_cache(p) ==
    /\ pc[p] = "idle"
    /\ rule_cache # NoHandle
    /\ next_handle < MaxHandles
    /\ cache_clear
    /\ epoch' = epoch + 1
    /\ UNCHANGED <<procvars, cfgvars, cdvars, membervars>>


\* ------------------------------------------------------- assign_roles
AssignOps == {"assign_roles", "update_user_with_cooldown"}

\* The orders in which a Vec may list the elements of S.
Orders(S) ==
    {seq \in [1..Cardinality(S) -> S] :
        \A i, j \in 1..Cardinality(S) : i # j => seq[i] # seq[j]}

\* get_assigned_roles, lines 300-308: one AssignedRole per rule of the set,
\* its role id looked up in role_info.
assigned_roles(status, satisfied) ==
    {[rule |-> x[1], role_id |-> status.role_info[x[1]], is_assigned |-> x[1] \in satisfied] :
        x \in status.set}

\* The loop with insert and remove exchanged.
apply_assigned_swapped(rs, vec, i) ==
    (rs \cup {vec[j].role_id : j \in {k \in i..Len(vec) : ~vec[k].is_assigned}})
        \ {vec[j].role_id : j \in {k \in i..Len(vec) : vec[k].is_assigned}}

\* assign_roles, lines 344-350: the loop over the assigned roles.
RECURSIVE apply_assigned(_, _, _)
apply_assigned(rs, vec, i) ==
    IF i > Len(vec) THEN rs
    ELSE apply_assigned(IF vec[i].is_assigned THEN rs \cup {vec[i].role_id}
                        ELSE rs \ {vec[i].role_id}, vec, i + 1)

\* Only the role ids of built-in rules are removed.
remove_configured_builtin_only(rs, active) ==
    rs \ {active[r] : r \in {x \in ActiveNames(active) : has_builtin(x)}}

\* assign_roles, lines 352-357: every configured role id is removed.
remove_configured(rs, active) ==
    rs \ {active[r] : r \in ActiveNames(active)}

\* assign_roles, lines 325-338.
nickname_change(id, can_access_user, do_set_nickname, nick) ==
    IF can_access_user /\ do_set_nickname
    THEN LET target_nickname == IF id # None THEN "u1" ELSE NoNick
         IN  IF target_nickname # nick
             THEN Some(IF target_nickname = NoNick THEN "" ELSE target_nickname)
             ELSE None
    ELSE None

\* A call that ran assign_roles returns res.
ReturnAssign(p, res) ==
    /\ Return(p, res)
    /\ roblox_id' = [roblox_id EXCEPT ![p] = None]
    /\ orig_roles' = [orig_roles EXCEPT ![p] = {}]
    /\ roles' = [roles EXCEPT ![p] = {}]
    /\ set_nickname' = [set_nickname EXCEPT ![p] = None]
    /\ is_admin' = [is_admin EXCEPT ![p] = FALSE]
    /\ last_updated' = [last_updated EXCEPT ![p] = NoTime]
    /\ now' = [now EXCEPT ![p] = 0]

SetRolesStatus(p) == IF is_admin[p] THEN "IsAdmin" ELSE "Success"

\* assign_roles, lines 320-342: the member is fetched, the nickname decided.
AssignStart(p, id, can_access_user, do_set_nickname) ==
    /\ roblox_id' = [roblox_id EXCEPT ![p] = id]
    /\ orig_roles' = [orig_roles EXCEPT ![p] = member_roles]
    /\ roles' = [roles EXCEPT ![p] = member_roles]
    /\ set_nickname' = [set_nickname EXCEPT ![p] =
            nickname_change(id, can_access_user, do_set_nickname, member_nick)]
    /\ is_admin' = [is_admin EXCEPT ![p] = ~can_access_user /\ do_set_nickname]
    /\ pc' = [pc EXCEPT ![p] = IF id # None THEN "get" ELSE "config"]
    /\ UNCHANGED <<arg_rule, arg_val, lock_h, start_epoch, cfg_active, cfg_version,
                   built, wrote_version, result>>
    /\ UNCHANGED <<member_roles, member_nick>>
    /\ UNCHANGED <<cfgvars, cachevars, cdvars>>

assign_roles_begin(p, id, can_access_user, do_set_nickname) ==
    /\ pc[p] = "idle"
    /\ op' = [op EXCEPT ![p] = "assign_roles"]
    /\ AssignStart(p, id, can_access_user, do_set_nickname)

\* update_user, lines 386-388: the verified identity is looked up and
\* assign_roles is entered.
update_user(p, id, can_access_user, do_set_nickname) ==
    /\ pc[p] = "update_user"
    /\ UNCHANGED op
    /\ AssignStart(p, id, can_access_user, do_set_nickname)

\* assign_roles, lines 343-350: get_assigned_roles has refreshed the entry and
\* reads it; the roles are folded over the Vec it returns.
assign_roles_read(p) ==
    /\ pc[p] = "read"
    /\ op[p] \in AssignOps
    /\ LET status == locks[lock_h[p]]
       IN  \/ /\ status.tag = "Compiled"
              /\ \E vec \in Orders(assigned_roles(status, roblox_id[p][1])) :
                    roles' = [roles EXCEPT ![p] = apply_assigned(orig_roles[p], vec, 1)]
              /\ pc' = [pc EXCEPT ![p] = "edit"]
              /\ lock_h' = [lock_h EXCEPT ![p] = NoHandle]
              /\ UNCHANGED <<arg_rule, arg_val, start_epoch, cfg_active,
                             cfg_version, built, result>>
              /\ UNCHANGED <<roblox_id, orig_roles, set_nickname, is_admin, last_updated, now>>
           \/ /\ status.tag = "Compiled"
              /\ status.set # {}
              /\ ReturnAssign(p, "LookupError")     \* rule_set.verify(roblox_id)?
           \/ /\ status.tag # "Compiled"
              /\ ReturnAssign(p, get_assigned_roles(status))
    /\ DropHandle(p, locks, lock_version, lock_epoch)
    /\ UNCHANGED <<op, wrote_version, member_roles, member_nick>>
    /\ UNCHANGED <<clock, roles_last_updated, last_update_cache>>
    /\ UNCHANGED <<cfgvars, rule_cache, next_handle, epoch>>

\* assign_roles, lines 352-357: without an identity the configuration is read.
assign_roles_config(p) ==
    /\ pc[p] = "config"
    /\ roles' = [roles EXCEPT ![p] = remove_configured(orig_roles[p], guild_active_rules)]
    /\ pc' = [pc EXCEPT ![p] = "edit"]
    /\ UNCHANGED <<op, arg_rule, arg_val, lock_h, start_epoch, cfg_active, cfg_version,
                   built, wrote_version, result>>
    /\ UNCHANGED <<member_roles, member_nick, roblox_id, orig_roles, set_nickname, is_admin>>
    /\ UNCHANGED <<cfgvars, cachevars, cdvars>>

\* assign_roles, lines 359-383: member.edit when anything differs, and the
\* status; under update_user_with_cooldown the call goes on to persist.
assign_roles_edit(p) ==
    /\ pc[p] = "edit"
    /\ LET set_roles == orig_roles[p] # roles[p]
           do_edit == set_nickname[p] # None \/ set_roles
       IN  \/ /\ IF do_edit
                 THEN /\ member_roles' = IF set_roles THEN roles[p] ELSE member_roles
                      /\ member_nick' = IF set_nickname[p] = None THEN member_nick
                                        ELSE IF set_nickname[p][1] = "" THEN NoNick
                                        ELSE set_nickname[p][1]
                 ELSE UNCHANGED <<member_roles, member_nick>>
              /\ IF op[p] = "assign_roles"
                 THEN ReturnAssign(p, SetRolesStatus(p))
                 ELSE /\ pc' = [pc EXCEPT ![p] = "persist"]
                      /\ UNCHANGED <<arg_rule, arg_val, lock_h, start_epoch, cfg_active,
                                     cfg_version, built, result>>
                      /\ UNCHANGED <<roblox_id, orig_roles, roles, set_nickname, is_admin,
                                     last_updated, now>>
           \/ /\ do_edit                            \* member.edit(..)? fails
              /\ ReturnAssign(p, "PlatformError")
              /\ UNCHANGED <<member_roles, member_nick>>
    /\ UNCHANGED <<op, wrote_version>>
    /\ UNCHANGED <<clock, roles_last_updated, last_update_cache>>
    /\ UNCHANGED <<cfgvars, cachevars>>

\* ------------------------------------------- update_user_with_cooldown
\* with_cooldown_cache, lines 390-401: the cell of the key, loaded from the
\* persisted row when the cache holds none.
with_cooldown_cache ==
    IF last_update_cache = Absent THEN roles_last_updated ELSE last_update_cache

\* The cooldown window one tick shorter.
cooldown_active_short(last, t) == last # NoTime /\ t + 1 < last + Cooldown

\* update_user_with_cooldown, lines 409-415.
cooldown_active(last, t) == last # NoTime /\ t < last + Cooldown

\* update_user_with_cooldown, lines 405-415: the cell is loaded and the
\* cooldown is checked against the clock.
update_user_with_cooldown_begin(p) ==
    /\ pc[p] = "idle"
    /\ op' = [op EXCEPT ![p] = "update_user_with_cooldown"]
    /\ last_update_cache' = with_cooldown_cache
    /\ IF cooldown_active(with_cooldown_cache, clock)
       THEN ReturnAssign(p, "Cooldown")
       ELSE /\ last_updated' = [last_updated EXCEPT ![p] = with_cooldown_cache]
            /\ now' = [now EXCEPT ![p] = clock]
            /\ pc' = [pc EXCEPT ![p] = "update_user"]
            /\ UNCHANGED <<arg_rule, arg_val, lock_h, start_epoch, cfg_active,
                           cfg_version, built, result>>
            /\ UNCHANGED <<roblox_id, orig_roles, roles, set_nickname, is_admin>>
    /\ UNCHANGED <<wrote_version, member_roles, member_nick, clock, roles_last_updated>>
    /\ UNCHANGED <<cfgvars, cachevars>>

\* INSERT INTO roles_last_updated: the key is unique, so a second row for it
\* is refused.
insert_refused == roles_last_updated # NoTime

\* The timestamp written over the row of the key, whatever it holds.
update_user_with_cooldown_replace(p) ==
    /\ pc[p] = "persist"
    /\ roles_last_updated' = now[p]
    /\ pc' = [pc EXCEPT ![p] = "store"]
    /\ UNCHANGED <<arg_rule, arg_val, lock_h, start_epoch, cfg_active,
                   cfg_version, built, result>>
    /\ UNCHANGED <<roblox_id, orig_roles, roles, set_nickname, is_admin,
                   last_updated, now>>
    /\ UNCHANGED <<op, wrote_version, member_roles, member_nick, clock, last_update_cache>>
    /\ UNCHANGED <<cfgvars, cachevars>>

\* update_user_with_cooldown, lines 417-421: the timestamp is inserted.
update_user_with_cooldown_persist(p) ==
    /\ pc[p] = "persist"
    /\ IF insert_refused
       THEN ReturnAssign(p, "DatabaseError") /\ UNCHANGED roles_last_updated
       ELSE /\ roles_last_updated' = now[p]
            /\ pc' = [pc EXCEPT ![p] = "store"]
            /\ UNCHANGED <<arg_rule, arg_val, lock_h, start_epoch, cfg_active,
                           cfg_version, built, result>>
            /\ UNCHANGED <<roblox_id, orig_roles, roles, set_nickname, is_admin,
                           last_updated, now>>
    /\ UNCHANGED <<op, wrote_version, member_roles, member_nick, clock, last_update_cache>>
    /\ UNCHANGED <<cfgvars, cachevars>>

\* update_user_with_cooldown, lines 422-423: cache.store(Some(now)).
update_user_with_cooldown_store(p) ==
    /\ pc[p] = "store"
    /\ last_update_cache' = now[p]
    /\ ReturnAssign(p, SetRolesStatus(p))
    /\ UNCHANGED <<op, wrote_version, member_roles, member_nick, clock, roles_last_updated>>
    /\ UNCHANGED <<cfgvars, cachevars>>

\* Time passes.
Tick ==
    /\ clock < MaxTime
    /\ clock' = clock + 1
    /\ UNCHANGED <<roles_last_updated, last_update_cache, last_updated, now>>
    /\ UNCHANGED <<cfgvars, cachevars, procvars, membervars>>

\* ------------------------------------------------------ specification
\* The compile-if-needed steps shared by every call that reads the cache.
Compile(p) ==
    \/ get_rule_cache(p)
    \/ update_cached_verification_check(p)
    \/ get_configuration_internal_active(p)
    \/ build_for_guild_finish(p)
    \/ update_cached_verification_write(p)

\* The same, the store, the configuration or the compiler being allowed to
\* fail.
CompileOrFail(p) ==
    \/ Compile(p)
    \/ build_for_guild_fails(p)

InitProcs ==
    /\ pc = [p \in Procs |-> "idle"]
    /\ op = [p \in Procs |-> "none"]
    /\ arg_rule = [p \in Procs |-> "b1"]
    /\ arg_val = [p \in Procs |-> NoRole]
    /\ lock_h = [p \in Procs |-> NoHandle]
    /\ start_epoch = [p \in Procs |-> 0]
    /\ cfg_active = [p \in Procs |-> NoRules]
    /\ cfg_version = [p \in Procs |-> <<0, 0>>]
    /\ built = [p \in Procs |-> NotCompiled]
    /\ wrote_version = [p \in Procs |-> 0]
    /\ result = [p \in Procs |-> "none"]

\* RoleManager::new, lines 48-53: both caches are empty.
InitCache ==
    /\ rule_cache = NoHandle
    /\ next_handle = 0
    /\ locks = [h \in Handles |-> NotCompiled]
    /\ lock_version = [h \in Handles |-> <<0, 0>>]
    /\ lock_epoch = [h \in Handles |-> 0]
    /\ epoch = 0

InitAssign ==
    /\ roblox_id = [p \in Procs |-> None]
    /\ orig_roles = [p \in Procs |-> {}]
    /\ roles = [p \in Procs |-> {}]
    /\ set_nickname = [p \in Procs |-> None]
    /\ is_admin = [p \in Procs |-> FALSE]

InitMember ==
    /\ member_roles = {}
    /\ member_nick = NoNick
    /\ InitAssign

InitCooldown ==
    /\ clock = 0
    /\ roles_last_updated = NoTime
    /\ last_update_cache = Absent
    /\ last_updated = [p \in Procs |-> NoTime]
    /\ now = [p \in Procs |-> 0]

Init ==
    /\ guild_active_rules = NoRules
    /\ guild_custom_rules = [r \in Rules |-> NoCond]
    /\ db_lock = NoProc
    /\ db_version = 0
    /\ limits_enabled \in BOOLEAN
    /\ InitCache /\ InitProcs /\ InitMember /\ InitCooldown

Next ==
    \E p \in Procs :
        \/ \E r \in Rules, g \in RoleIds \cup {NoRole} : set_active_role_begin(p, r, g)
        \/ set_active_role_write(p)
        \/ \E r \in Rules, c \in Conds : set_custom_rule_begin(p, r, c)
        \/ set_custom_rule_write(p)
        \/ \E r \in Rules : set_custom_rule_delete(p, r)
        \/ \E o \in Readers : reader_begin(p, o)
        \/ Compile(p)
        \/ reader_read(p)
        \/ clear_rule_cache(p)
        \/ ret(p)

Spec == Init /\ [][Next]_vars

\* assign_roles, called by one thread, over every persisted configuration and
\* every member.
InitAssignRoles ==
    /\ guild_active_rules \in [Rules -> Groups \cup {NoRole}]
    /\ guild_custom_rules \in [Rules -> {NoCond, "good"}]
    /\ db_lock = NoProc
    /\ db_version = 0
    /\ limits_enabled \in BOOLEAN
    /\ member_roles \in SUBSET Groups
    /\ member_nick \in {NoNick, "u1"}
    /\ InitCache /\ InitProcs /\ InitAssign /\ InitCooldown

NextAssignRoles ==
    \E p \in {NumProcs} :
        \/ \E id \in {None} \cup {Some(sat) : sat \in SUBSET Rules}, can, do \in BOOLEAN :
              assign_roles_begin(p, id, can, do)
        \/ CompileOrFail(p)
        \/ assign_roles_read(p)
        \/ assign_roles_config(p)
        \/ assign_roles_edit(p)
        \/ ret(p)

SpecAssignRoles == InitAssignRoles /\ [][NextAssignRoles]_vars

\* update_user_with_cooldown on one key, the rule configuration fixed.
InitUpdateUser ==
    /\ guild_active_rules \in {NoRules, [NoRules EXCEPT !["b1"] = "g1"]}
    /\ guild_custom_rules = [r \in Rules |-> NoCond]
    /\ db_lock = NoProc
    /\ db_version = 0
    /\ limits_enabled = TRUE
    /\ member_roles = {}
    /\ member_nick = NoNick
    /\ clock = 0
    /\ roles_last_updated \in {NoTime, 0}
    /\ last_update_cache = Absent
    /\ last_updated = [p \in Procs |-> NoTime]
    /\ now = [p \in Procs |-> 0]
    /\ InitCache /\ InitProcs /\ InitAssign

NextUpdateUser ==
    \/ Tick
    \/ \E p \in Procs :
        \/ update_user_with_cooldown_begin(p)
        \/ \E id \in {None, Some({"b1"})}, can \in BOOLEAN : update_user(p, id, can, TRUE)
        \/ CompileOrFail(p)
        \/ assign_roles_read(p)
        \/ assign_roles_config(p)
        \/ assign_roles_edit(p)
        \/ update_user_with_cooldown_persist(p)
        \/ update_user_with_cooldown_store(p)
        \/ ret(p)

SpecUpdateUser == InitUpdateUser /\ [][NextUpdateUser]_vars

\* The rule cache under readers, forced refreshes, clears and failing
\* compiles, over persisted configurations within and over the limits.
InitCacheOps ==
    /\ guild_active_rules \in {NoRules, [NoRules EXCEPT !["b1"] = "g1"],
                                [r \in Rules |-> "g1"]}
    /\ guild_custom_rules = [r \in Rules |-> IF r = "c1" THEN "good" ELSE NoCond]
    /\ db_lock = NoProc
    /\ db_version = 0
    /\ limits_enabled \in BOOLEAN
    /\ InitCache /\ InitProcs /\ InitMember /\ InitCooldown

NextCacheOps ==
    \E p \in Procs :
        \/ \E r \in Rules : set_custom_rule_delete(p, r)
        \/ \E o \in Readers : reader_begin(p, o)
        \/ CompileOrFail(p)
        \/ reader_read(p)
        \/ clear_rule_cache(p)
        \/ ret(p)

SpecCacheOps == InitCacheOps /\ [][NextCacheOps]_vars

\* build_for_guild applied by one reader to every persisted configuration.
InitBuild ==
    /\ guild_active_rules \in [Rules -> Groups \cup {NoRole}]
    /\ guild_custom_rules \in [Rules -> Conds \cup {NoCond}]
    /\ db_lock = NoProc
    /\ db_version = 0
    /\ limits_enabled \in BOOLEAN
    /\ InitCache /\ InitProcs /\ InitMember /\ InitCooldown

NextBuild ==
    \E p \in {NumProcs} :
        \/ \E o \in Readers : reader_begin(p, o)
        \/ CompileOrFail(p)
        \/ reader_read(p)
        \/ ret(p)

SpecBuild == InitBuild /\ [][NextBuild]_vars

\* ================================================================ claims
InCall(p) == pc[p] \notin {"idle", "done"}

\* C1: once set_active_role or set_custom_rule has returned successfully, the
\* status a read finds in the guild's cache entry was built from tables read
\* after that call's write (for set_active_role the active rules, for
\* set_custom_rule the custom rules), never from an older configuration; a
\* status equal to what the persisted configuration compiles to is let pass.
C1_MutationSeenByNextRead ==
    \A p \in Procs :
        (/\ pc[p] = "done" /\ op[p] \in Mutators /\ result[p] = "ok"
         /\ rule_cache # NoHandle)
        => (is_compiled(locks[rule_cache])
            => \/ lock_version[rule_cache][IF op[p] = "set_active_role" THEN 1 ELSE 2]
                    >= wrote_version[p]
               \/ locks[rule_cache] =
                    build_for_guild(guild_active_rules, guild_custom_rules, limits_enabled))

\* C2: with limits enabled the persisted active rules never exceed
\* RolesMaxAssigned, and a set_active_role call that has made its checks and
\* not yet written is alone inside the transaction.
C2_ActiveRulesWithinMax ==
    /\ limits_enabled => Cardinality(ActiveNames(guild_active_rules)) <= RolesMaxAssigned
    /\ Cardinality({p \in Procs : pc[p] = "sar_write"}) <= 1

\* C2 witness: one set_active_role was rejected for the limit while another
\* thread's set_active_role, which filled the last slot, is still in flight.
C2_Witness ==
    /\ limits_enabled
    /\ Cardinality(ActiveNames(guild_active_rules)) = RolesMaxAssigned
    /\ \E p, q \in Procs :
        /\ p # q
        /\ pc[p] = "done" /\ op[p] = "set_active_role" /\ result[p] = "TooManyRoles"
        /\ InCall(q) /\ op[q] = "set_active_role" /\ wrote_version[q] > 0
        /\ guild_active_rules[arg_rule[q]] = arg_val[q] /\ arg_val[q] # NoRole

\* The number of active rules the guild has once rule r is bound to g.
ProspectiveCount(r, g) ==
    Cardinality(IF g = NoRole THEN ActiveNames(guild_active_rules) \ {r}
                ELSE ActiveNames(guild_active_rules) \cup {r})

\* C3: with limits enabled, set_active_role on an existing rule is rejected
\* with the too-many-roles error exactly when the active rules the guild would
\* have after the change exceed RolesMaxAssigned, for an upsert and for a
\* delete alike.
C3_RejectedExactlyWhenOverMax ==
    [][\A p \in Procs, r \in Rules, g \in RoleIds \cup {NoRole} :
          (/\ limits_enabled
           /\ has_builtin(r) \/ guild_custom_rules[r] # NoCond
           /\ set_active_role_begin(p, r, g))
          => ((pc'[p] = "done" /\ result'[p] = "TooManyRoles")
                <=> ProspectiveCount(r, g) > RolesMaxAssigned)]_vars

UserErrors == {"NoRuleName", "TooManyRoles", "TooManyCustom", "ParseError"}

\* C4: a call of update_user_with_cooldown made while the cell of the key
\* holds a time whose cooldown has not run out returns the cooldown error in
\* the same step and changes neither the member's roles or nickname, nor the
\* persisted row, nor the value of the cell.
C4_CooldownViolationChangesNothing ==
    [][\A p \in Procs :
        (/\ pc[p] = "idle" /\ pc'[p] # "idle"
         /\ op'[p] = "update_user_with_cooldown"
         /\ with_cooldown_cache # NoTime
         /\ clock < with_cooldown_cache + Cooldown)
        => /\ pc'[p] = "done" /\ result'[p] = "Cooldown"
           /\ UNCHANGED <<member_roles, member_nick, roles_last_updated>>
           /\ with_cooldown_cache' = with_cooldown_cache]_vars

\* C4 witness: a call was refused for the cooldown that an earlier call of
\* the same key started when it stored its time in the cell.
C4_Witness ==
    \E p \in Procs :
        /\ pc[p] = "done" /\ op[p] = "update_user_with_cooldown"
        /\ result[p] = "Cooldown"
        /\ last_update_cache >= 1 /\ roles_last_updated = last_update_cache
        /\ clock > last_update_cache

\* C5: a call that found a recorded update of its key, passed the cooldown
\* check and performed the update persists its timestamp as the row of the
\* key and goes on to store it in the cell.
C5_LaterCallPersistsAndStores ==
    [][\A p \in Procs :
        (pc[p] = "persist" /\ pc'[p] # "persist" /\ last_updated[p] # NoTime)
        => (pc'[p] = "store" /\ roles_last_updated' = now[p])]_vars

\* C6: once the cell of the key holds a time, no step makes it hold an
\* earlier one.
C6_CellNeverDecreases ==
    [][last_update_cache \notin {Absent, NoTime}
        => last_update_cache' >= last_update_cache]_vars

\* C6 witness: the cell holds a time while a concurrent call of the same key,
\* which took an earlier time, has performed its update and is about to
\* persist.
C6_Witness ==
    /\ last_update_cache >= 1
    /\ \E p \in Procs : pc[p] = "persist" /\ now[p] < last_update_cache

\* The status assign_roles folded over, the rules it evaluated and their
\* target groups.
EvaluatedStatus == locks[rule_cache]
EvaluatedRules == {x[1] : x \in EvaluatedStatus.set}
TargetOf(r) == EvaluatedStatus.role_info[r]

\* The groups assign_roles leaves as they were: those no evaluated rule
\* targets.
C7_OthersKept(p) ==
    \A g \in Groups \ {TargetOf(r) : r \in EvaluatedRules} :
        g \in roles[p] <=> g \in orig_roles[p]

\* C7 as stated: with an identity, the computed set contains the target of
\* every satisfied rule, no target of an unsatisfied rule, and keeps every
\* other group, whatever the configuration.
C7_AssignRolesAsStated ==
    \A p \in Procs :
        (pc[p] = "edit" /\ roblox_id[p] # None)
        => /\ \A r \in EvaluatedRules \cap roblox_id[p][1] : TargetOf(r) \in roles[p]
           /\ \A r \in EvaluatedRules \ roblox_id[p][1] : TargetOf(r) \notin roles[p]
           /\ C7_OthersKept(p)

\* C7: with an identity, the computed set contains the target of every
\* satisfied rule that no unsatisfied rule shares, contains no target of an
\* unsatisfied rule that no satisfied rule shares, and keeps every group no
\* evaluated rule targets.
C7_AssignRolesWithIdentity ==
    \A p \in Procs :
        (pc[p] = "edit" /\ roblox_id[p] # None)
        => LET sat == EvaluatedRules \cap roblox_id[p][1]
               unsat == EvaluatedRules \ roblox_id[p][1]
           IN  /\ \A r \in sat :
                    (\A q \in unsat : TargetOf(q) # TargetOf(r)) => TargetOf(r) \in roles[p]
               /\ \A r \in unsat :
                    (\A q \in sat : TargetOf(q) # TargetOf(r)) => TargetOf(r) \notin roles[p]
               /\ C7_OthersKept(p)

\* C7 witness: two rules were evaluated, one satisfied and one not, bound to
\* different groups, and the member loses one group and gains another.
C7_Witness ==
    \E p \in Procs :
        /\ pc[p] = "edit" /\ roblox_id[p] # None
        /\ \E r \in EvaluatedRules \cap roblox_id[p][1], q \in EvaluatedRules \ roblox_id[p][1] :
              /\ TargetOf(r) # TargetOf(q)
              /\ TargetOf(r) \notin orig_roles[p]
              /\ TargetOf(q) \in orig_roles[p]

\* C8: without an identity, the computed set is the member's roles less every
\* group the persisted configuration binds a rule to, every other group kept;
\* the call's steps neither hold nor change a cache entry.
C8_AssignRolesWithoutIdentity ==
    /\ [](\A p \in Procs :
            (pc[p] = "edit" /\ roblox_id[p] = None)
            => /\ orig_roles[p] = member_roles
               /\ \A g \in Groups :
                    g \in roles[p] <=>
                        (g \in member_roles /\ \A r \in Rules : guild_active_rules[r] # g)
               /\ lock_h[p] = NoHandle)
    /\ [][\A p \in Procs :
            (roblox_id'[p] = None /\ pc'[p] \in {"config", "edit"})
            => UNCHANGED cachevars]_vars

\* C8 witness: the cache entry holds an Error status and a call without an
\* identity has removed a configured group and kept another one.
C8_Witness ==
    \E p \in Procs :
        /\ pc[p] = "edit" /\ roblox_id[p] = None
        /\ rule_cache # NoHandle /\ locks[rule_cache].tag = "Error"
        /\ roles[p] # orig_roles[p] /\ roles[p] # {}

\* C9: a set_active_role or set_custom_rule call that returns a user error
\* has taken no step before the one that raised it, and that step leaves the
\* persisted rows and the cache as they were.
C9_UserErrorChangesNothing ==
    [][\A p \in Procs :
          (/\ pc[p] # "done" /\ pc'[p] = "done"
           /\ op'[p] \in Mutators /\ result'[p] \in UserErrors)
          => (/\ pc[p] = "idle"
              /\ UNCHANGED <<guild_active_rules, guild_custom_rules, rule_cache, locks>>)]_vars

\* C9 witness: with a compiled entry in the cache, one thread's
\* set_active_role and another's set_custom_rule have both been rejected.
C9_Witness ==
    /\ rule_cache # NoHandle
    /\ \E p, q \in Procs :
        /\ pc[p] = "done" /\ op[p] = "set_active_role"
        /\ result[p] \in {"NoRuleName", "TooManyRoles"}
        /\ pc[q] = "done" /\ op[q] = "set_custom_rule"
        /\ result[q] \in {"TooManyCustom", "ParseError"}
        /\ is_compiled(locks[rule_cache])

\* C10: the status a reader is about to take from its entry was installed no
\* earlier than the last clear_rule_cache that preceded the reader's
\* get_rule_cache, whatever refreshes and compiles were in flight at the clear.
C10_NoResultFromBeforeClear ==
    \A p \in Procs :
        (pc[p] = "read" /\ is_compiled(locks[lock_h[p]]))
        => lock_epoch[lock_h[p]] >= start_epoch[p]

\* C10 witness: after a clear a reader holds the new entry, compiled, while
\* another thread that was in flight at the clear is about to install into the
\* entry that was dropped.
C10_Witness ==
    \E p, q \in Procs :
        /\ pc[p] = "read" /\ start_epoch[p] >= 1 /\ lock_h[p] = rule_cache
        /\ is_compiled(locks[lock_h[p]])
        /\ pc[q] = "install" /\ lock_h[q] # lock_h[p] /\ start_epoch[q] < start_epoch[p]

Alive(h) == rule_cache = h \/ \E q \in Procs : lock_h[q] = h

\* C12: an entry whose status is Error or Compiled keeps a status that is
\* Error or Compiled for as long as the entry exists, whatever non-forced
\* compile, forced refresh or failed compile acts on it.
C12_NeverBackToNotCompiled ==
    [][\A h \in Handles :
        (is_compiled(locks[h]) /\ Alive(h)') => is_compiled(locks'[h])]_vars

\* C12 witness: a forced refresh is about to replace the Error or Compiled
\* status of its entry by a status of the other kind.
C12_Witness ==
    \E p \in Procs :
        /\ pc[p] = "install" /\ force(op[p])
        /\ is_compiled(locks[lock_h[p]])
        /\ built[p].tag # locks[lock_h[p]].tag

\* C13: a non-forced update leaves an entry that is Error or Compiled as it
\* is: at its first read it goes on to return without compiling, and at its
\* write, having compiled, it drops its own result.
C13_NonForcedKeepsCompiled ==
    [][\A p \in Procs :
        (/\ pc[p] \in {"check", "install"} /\ ~force(op[p])
         /\ is_compiled(locks[lock_h[p]])
         /\ pc'[p] # pc[p])
        => /\ locks'[lock_h[p]] = locks[lock_h[p]]
           /\ pc'[p] = "read"]_vars

\* C13 witness: a non-forced caller has compiled a status and comes to its
\* write when another caller has installed a different status in the entry.
C13_Witness ==
    \E p \in Procs :
        /\ pc[p] = "install" /\ ~force(op[p])
        /\ is_compiled(locks[lock_h[p]])
        /\ built[p] # locks[lock_h[p]]

\* C14: a build that ends without a status returns the fatal error to its
\* caller, forced or not, and leaves every entry that still exists as it
\* was; a non-forced caller that finds its entry NotCompiled goes on to
\* build.
C14_FatalErrorNotCached ==
    [][\A p \in Procs :
        /\ (pc[p] = "build2" /\ pc'[p] \notin {"build2", "install"})
            => /\ pc'[p] = "done" /\ result'[p] = "FatalError"
               /\ \A h \in Handles : Alive(h)' => locks'[h] = locks[h]
        /\ (pc[p] = "check" /\ ~is_compiled(locks[lock_h[p]]) /\ pc'[p] # "check")
            => pc'[p] = "build"]_vars

\* C14 witness: a non-forced compile has failed, the guild's entry is still
\* NotCompiled, and the next reader of the entry is compiling again.
C14_Witness ==
    \E p, q \in Procs :
        /\ pc[p] = "done" /\ op[p] \in Readers /\ result[p] = "FatalError"
        /\ rule_cache # NoHandle /\ ~is_compiled(locks[rule_cache])
        /\ pc[q] = "build" /\ op[q] \in Readers /\ lock_h[q] = rule_cache

\* The limits build_for_guild may be configured with.
LimitChoices ==
    [max_assigned : 0..MaxLimit, max_custom : 0..MaxLimit,
     max_instructions : 0..MaxLimit, max_web_requests : 0..MaxLimit]

LimitErrors == {"TooManyRoles", "TooManyCustom", "TooComplex", "TooManyWebRequests"}

\* C15: with limits enabled build_for_guild reports the first limit the
\* configuration is over, in the order active rules, custom rules,
\* instructions, web requests, the two counts before any rule is compiled;
\* with limits disabled it reports none of the four; and the status a compile
\* is about to install is the one so computed.
C15_FirstViolatedLimit ==
    /\ \A max \in LimitChoices :
        LET active_count == Cardinality(ActiveNames(guild_active_rules))
            custom_count == Cardinality(CustomNames(guild_custom_rules))
            c == compile(ActiveNames(guild_active_rules), guild_custom_rules)
            status == build_status(guild_active_rules, guild_custom_rules, TRUE, max)
            counts_ok == active_count <= max.max_assigned /\ custom_count <= max.max_custom
        IN  /\ active_count > max.max_assigned => status = Error("TooManyRoles")
            /\ (active_count <= max.max_assigned /\ custom_count > max.max_custom)
                    => status = Error("TooManyCustom")
            /\ (counts_ok /\ c.err = "ok"
                    /\ instruction_count(c.set) > max.max_instructions)
                    => status = Error("TooComplex")
            /\ (counts_ok /\ c.err = "ok"
                    /\ instruction_count(c.set) <= max.max_instructions
                    /\ max_web_requests(c.set) > max.max_web_requests)
                    => status = Error("TooManyWebRequests")
            /\ build_status(guild_active_rules, guild_custom_rules, FALSE, max).msg
                    \notin LimitErrors
    /\ \A p \in Procs :
        pc[p] = "install"
        => built[p] = build_status(guild_active_rules, guild_custom_rules,
                                   limits_enabled, ConfigValues)

\* C15 witness: a configuration over the active-rule limit, one of its active
\* rules having a condition that does not parse, was built into the
\* too-many-roles Error.
C15_Witness ==
    \E p \in Procs :
        /\ pc[p] = "install" /\ limits_enabled
        /\ Cardinality(ActiveNames(guild_active_rules)) > RolesMaxAssigned
        /\ \E r \in ActiveNames(guild_active_rules) : guild_custom_rules[r] = "bad"
        /\ built[p] = Error("TooManyRoles")

\* C16: with limits enabled, whenever the guild's entry holds a status built
\* from the tables as they are now and these hold more custom rules than
\* RolesMaxCustomRules (two set_custom_rule calls having passed the count
\* check before either wrote), the status is the too-many-custom-rules Error.
C16_OverLimitCompilesToError ==
    (/\ limits_enabled
     /\ rule_cache # NoHandle /\ is_compiled(locks[rule_cache])
     /\ lock_version[rule_cache] = <<db_version, db_version>>
     /\ Cardinality(ActiveNames(guild_active_rules)) <= RolesMaxAssigned
     /\ Cardinality(CustomNames(guild_custom_rules)) > RolesMaxCustomRules)
    => locks[rule_cache] = Error("TooManyCustom")

\* C16 witness: two set_custom_rule calls, each adding a rule, have both
\* returned Ok; the guild has more custom rules than the limit and the forced
\* compile after the later write has installed the Error.
C16_Witness ==
    /\ limits_enabled
    /\ Cardinality(CustomNames(guild_custom_rules)) > RolesMaxCustomRules
    /\ \A p \in Procs :
        /\ pc[p] = "done" /\ op[p] = "set_custom_rule" /\ result[p] = "ok"
        /\ wrote_version[p] > 0
    /\ rule_cache # NoHandle
    /\ lock_version[rule_cache] = <<db_version, db_version>>
    /\ locks[rule_cache] = Error("TooManyCustom")

\* C17: once the cell of the key is loaded, it holds what the persisted row
\* holds in every state in which no call is between its persist and its
\* store.
C17_CellAgreesWithRow ==
    (last_update_cache # Absent /\ \A p \in Procs : pc[p] # "store")
    => last_update_cache = roles_last_updated

\* C17 witness: every call on the key has finished, one of them having
\* persisted and stored its time while another had passed the cooldown check
\* on the same empty cell.
C17_Witness ==
    /\ last_update_cache >= 0 /\ last_update_cache = roles_last_updated
    /\ \A p \in Procs : pc[p] = "done" /\ op[p] = "update_user_with_cooldown"
    /\ \E p, q \in Procs :
        /\ result[p] \in {"Success", "IsAdmin"}
        /\ result[q] = "DatabaseError"

\* C18: a reader whose non-forced update has returned finds Error or
\* Compiled behind the handle it holds, and no reader has returned through
\* the NotCompiled arm of get_assigned_roles or explain_rule_set.
C18_ReadNeverNotCompiled ==
    \A p \in Procs :
        /\ pc[p] = "read" => (lock_h[p] # NoHandle /\ is_compiled(locks[lock_h[p]]))
        /\ pc[p] = "done" => result[p] \notin {"unreachable", "unimplemented"}

\* C18 witness: a reader is about to read an entry that clear_rule_cache has
\* dropped from the cache while the reader held it, a forced refresh being
\* under way on the guild's new entry.
C18_Witness ==
    \E p, q \in Procs :
        /\ pc[p] = "read" /\ op[p] \in Readers
        /\ lock_h[p] # rule_cache
        /\ force(op[q]) /\ pc[q] \in {"build", "build2", "install"}
        /\ lock_h[q] = rule_cache

\* The rule names a status compiled and the names its map gives a role id.
CompiledNames(status) == {x[1] : x \in status.set}
MappedNames(status) == {r \in Rules : status.role_info[r] # NoRole}

\* C19: in every Compiled status, installed or about to be, the rules of the
\* set are exactly the rules the map gives a role id, and these are the
\* active rules of the one read the compile made.
C19_RoleInfoCoversCompiledSet ==
    /\ \A h \in Handles :
        locks[h].tag = "Compiled" => CompiledNames(locks[h]) = MappedNames(locks[h])
    /\ \A p \in Procs :
        (pc[p] = "install" /\ built[p].tag = "Compiled")
        => /\ CompiledNames(built[p]) = MappedNames(built[p])
           /\ built[p].role_info = cfg_active[p]

\* C19 witness: the guild's entry holds a Compiled status with a rule in it,
\* built from active rules that a concurrent call changed before the compile
\* read the custom rules.
C19_Witness ==
    /\ rule_cache # NoHandle
    /\ locks[rule_cache].tag = "Compiled"
    /\ CompiledNames(locks[rule_cache]) # {}
    /\ locks[rule_cache].role_info # guild_active_rules
    /\ lock_version[rule_cache][1] < lock_version[rule_cache][2]

\* C20: every rule with a persisted active-role assignment is a built-in rule
\* or has a persisted custom-rule definition.
C20_ActiveRulesAreDefined ==
    \A r \in Rules :
        guild_active_rules[r] # NoRole
        => (has_builtin(r) \/ guild_custom_rules[r] # NoCond)

====
